---------------------------- MODULE Spec2Model ----------------------------
(***************************************************************************)
(* Model of models/setup_vosk.py: the Vosk model setup script.             *)
(*                                                                         *)
(* main() is a straight line of blocking calls on four fixed paths:        *)
(*   vosk-model.zip                              (variable zip)            *)
(*   vosk_model/                                 (variable xdir)           *)
(*   ../android/app/src/main/assets/vosk         (variable assets)         *)
(*   ../android/app/src/main/assets/vosk/model   (variable dest)           *)
(* Every call either returns or raises; nothing is caught, so a raise ends *)
(* the invocation where it stands.  Each call is one action; its raising   *)
(* outcomes are actions of their own.                                      *)
(*                                                                         *)
(* Three specifications:                                                   *)
(*   Spec      one invocation at a time, run again and again, the server   *)
(*             and the filesystem free to fail at every call;              *)
(*   SpecConc  two invocations started from the same directory, with no    *)
(*             failure of the environment;                                 *)
(*   SpecDl    the chunk loop of download_file and its progress line.      *)
(***************************************************************************)
EXTENDS Integers, Sequences, FiniteSets, TLC

(***************************************************************************)
(* Bounds.                                                                 *)
(***************************************************************************)
\* Invocations of main() in one behaviour of Spec.
MaxRuns == 4
\* Invocations of main() in one behaviour of SpecConc.
MaxConcRuns == 2
\* Full chunks in the longest response body of SpecDl.
MaxChunks == 4

(***************************************************************************)
(* Names on disk.  A top-level name of the archive is a sequence of the    *)
(* tokens between its dashes: <<"vosk","model","a">> is "vosk-model-a".    *)
(***************************************************************************)
DirA == <<"vosk", "model", "a">>
DirB == <<"vosk", "model", "b">>
DirPlain == <<"vosk", "model">>
Dirs == {DirA, DirB, DirPlain}
Names == {"f1", "f2"}
Entries == Dirs \X Names

\* glob("vosk-model-*"): the name starts with "vosk-model-", so it has the
\* tokens vosk and model and a dash after them.
GlobMatch(d) == Len(d) >= 3 /\ d[1] = "vosk" /\ d[2] = "model"

(***************************************************************************)
(* The archives the URL may serve, each the sequence of its members in     *)
(* archive order.  A file's content is the number of the archive it came   *)
(* from; 0 is "no such file".                                              *)
(***************************************************************************)
ArchiveIds == 1 .. 4
Members(a) ==
    CASE a = 1 -> << <<DirA, "f1">>, <<DirA, "f2">> >>
      [] a = 2 -> << <<DirA, "f1">> >>
      [] a = 3 -> << <<DirB, "f1">> >>
      [] OTHER -> << <<DirPlain, "f1">> >>
Versions == {0} \cup ArchiveIds
MemberSet(a) == {Members(a)[i] : i \in 1 .. Len(Members(a))}
\* The model directories of an archive, and the files an install of that
\* archive alone puts at the install path.
ModelDirsOf(a) == {e[1] : e \in {m \in MemberSet(a) : GlobMatch(m[1])}}
ModelFilesOf(a) ==
    [n \in Names |->
        IF \E d \in ModelDirsOf(a) : <<d, n>> \in MemberSet(a) THEN a ELSE 0]

NoFiles == [n \in Names |-> 0]
NoTree == [e \in Entries |-> 0]
NoDir == [ex |-> FALSE, files |-> NoFiles]
NoZip == [ex |-> FALSE, arch |-> 0, complete |-> FALSE]

Procs == {1, 2}
Other(p) == 3 - p

VARIABLES
    zip,       \* vosk-model.zip: [ex, arch, complete]
    xdir,      \* vosk_model/: Entries -> Versions
    assets,    \* the asset directory exists
    dest,      \* the install path: [ex, files]
    pc,        \* per invocation: the call it stands before
    arch,      \* per invocation: the archive the server answers with
    hnd,       \* per invocation: state of its open handle on the zip
    sel,       \* per invocation: model_dir, <<>> before the glob
    failedAt,  \* per invocation: the call that raised, "none" otherwise
    atStart,   \* per invocation: dest and assets when it started
    lastOK,    \* dest as the last invocation that returned left it
    prev,      \* outcome of the invocation before the current one
    overlap,   \* per invocation: another one was running during it
    runs,      \* invocations started
    total, body, downloaded, shown   \* download_file's chunk loop

fsvars == <<zip, xdir, assets, dest>>
ctl == <<pc, arch, hnd, sel, failedAt, atStart, lastOK, prev, overlap, runs>>
dlvars == <<total, body, downloaded, shown>>
vars == <<fsvars, ctl, dlvars>>


(***************************************************************************)
(* Directory helpers.                                                      *)
(***************************************************************************)
\* The top-level entries of vosk_model/ (a directory exists while it holds
\* a file).
TopLevel(x) == {d \in Dirs : \E n \in Names : x[<<d, n>>] # 0}
\* list(Path("vosk_model").glob("vosk-model-*")): the matching entries, in
\* the order the filesystem enumerates them.
Matches(x) == {d \in TopLevel(x) : GlobMatch(d)}
\* The files of one top-level directory of vosk_model/.
SubTree(x, d) == [n \in Names |-> x[<<d, n>>]]
\* extractall: the first k members written into the tree, over what is there.
Extracted(x, a, k) ==
    [e \in Entries |->
        IF \E i \in 1 .. k : Members(a)[i] = e THEN a ELSE x[e]]
\* What a recursive delete that raised part-way can leave of a file map:
\* the file it failed on is still there.
Present(f) == {e \in DOMAIN f : f[e] # 0}
Keep(f, S) == [e \in DOMAIN f |-> IF e \in S THEN f[e] ELSE 0]
Remnants(f) == {Keep(f, S) : S \in SUBSET Present(f) \ {{}}}
\* What a recursive copy that raised has written: copytree goes on after a
\* failed file and raises at the end, so any files but not all of them.
PartialCopies(f) == {Keep(f, S) : S \in SUBSET Present(f) \ {Present(f)}}

Goto(p, l) == pc' = [pc EXCEPT ![p] = l] /\ UNCHANGED failedAt
Raise(p, s) ==
    /\ pc' = [pc EXCEPT ![p] = "aborted"]
    /\ failedAt' = [failedAt EXCEPT ![p] = s]
Running(p) == pc[p] \notin {"idle", "done", "aborted"}

(***************************************************************************)
(* Init: a checkout on which the script never ran.                         *)
(***************************************************************************)
InitFs ==
    /\ zip = NoZip
    /\ xdir = NoTree
    /\ assets = FALSE
    /\ dest = NoDir
InitCtl ==
    /\ pc = [p \in Procs |-> "idle"]
    /\ arch = [p \in Procs |-> 0]
    /\ hnd = [p \in Procs |-> "none"]
    /\ sel = [p \in Procs |-> <<>>]
    /\ failedAt = [p \in Procs |-> "none"]
    /\ atStart = [p \in Procs |-> [dest |-> NoDir, assets |-> FALSE]]
    /\ lastOK = [ran |-> FALSE, dest |-> NoDir]
    /\ prev = [ok |-> FALSE, arch |-> 0, dest |-> NoDir]
    /\ overlap = [p \in Procs |-> FALSE]
    /\ runs = 0
InitDl ==
    /\ total = 0
    /\ body = 0
    /\ downloaded = 0
    /\ shown = -1
Init == InitFs /\ InitCtl /\ InitDl

(***************************************************************************)
(* main(): one action per call, in program order.                          *)
(***************************************************************************)
\* python3 setup_vosk.py: a new invocation enters main().
Invoke(p) ==
    /\ pc[p] \in {"idle", "done", "aborted"}
    /\ runs < MaxRuns
    /\ runs' = runs + 1
    /\ pc' = [pc EXCEPT ![p] = "get"]
    /\ failedAt' = [failedAt EXCEPT ![p] = "none"]
    /\ arch' = [arch EXCEPT ![p] = 0]
    /\ sel' = [sel EXCEPT ![p] = <<>>]
    /\ atStart' = [atStart EXCEPT ![p] = [dest |-> dest, assets |-> assets]]
    /\ prev' = [ok |-> pc[p] = "done", arch |-> arch[p], dest |-> dest]
    /\ overlap' = [q \in Procs |->
                     IF q = p THEN Running(Other(p))
                     ELSE overlap[q] \/ Running(q)]
    /\ UNCHANGED <<fsvars, hnd, lastOK, dlvars>>

\* requests.get + raise_for_status, status 2xx: the server answers with an
\* archive.
GetOk(p) ==
    /\ pc[p] = "get"
    /\ \E a \in ArchiveIds : arch' = [arch EXCEPT ![p] = a]
    /\ Goto(p, "open")
    /\ UNCHANGED <<fsvars, hnd, sel, atStart, lastOK, prev, overlap, runs, dlvars>>

\* Mutant of GetStatusError: the asset directory is made before the fetch.
MkdirThenStatusError(p) ==
    /\ pc[p] = "get"
    /\ assets' = TRUE
    /\ Raise(p, "status")
    /\ UNCHANGED <<zip, xdir, dest, arch, hnd, sel, atStart, lastOK, prev, overlap, runs, dlvars>>

\* raise_for_status raises HTTPError.
GetStatusError(p) ==
    /\ pc[p] = "get"
    /\ Raise(p, "status")
    /\ UNCHANGED <<fsvars, arch, hnd, sel, atStart, lastOK, prev, overlap, runs, dlvars>>

\* requests.get raises (no route, DNS, TLS).
GetNetworkError(p) ==
    /\ pc[p] = "get"
    /\ Raise(p, "get")
    /\ UNCHANGED <<fsvars, arch, hnd, sel, atStart, lastOK, prev, overlap, runs, dlvars>>

\* open(destination, 'wb'): creates or truncates vosk-model.zip.  A writer
\* that has the file open loses what it wrote so far.
OpenZip(p) ==
    /\ pc[p] = "open"
    /\ zip' = [ex |-> TRUE, arch |-> arch[p], complete |-> FALSE]
    /\ hnd' = [q \in Procs |->
                 IF q = p THEN "ok"
                 ELSE IF hnd[q] = "ok" THEN "clobbered" ELSE hnd[q]]
    /\ Goto(p, "write")
    /\ UNCHANGED <<xdir, assets, dest, arch, sel, atStart, lastOK, prev, overlap, runs, dlvars>>

\* open raises (read-only directory).
OpenZipFail(p) ==
    /\ pc[p] = "open"
    /\ Raise(p, "open")
    /\ UNCHANGED <<fsvars, arch, hnd, sel, atStart, lastOK, prev, overlap, runs, dlvars>>

\* The chunk loop ran to the end of the body and the file was closed.  The
\* path holds this invocation's archive if its handle still is the file at
\* the path and nobody truncated it or is writing another archive into it.
WriteAll(p) ==
    /\ pc[p] = "write"
    /\ zip' = IF hnd[p] = "unlinked" THEN zip
              ELSE [ex |-> TRUE,
                    arch |-> arch[p],
                    complete |->
                        /\ \A q \in Procs \ {p} :
                               hnd[q] \in {"ok", "clobbered"} => arch[q] = arch[p]
                        /\ (hnd[p] = "ok"
                             \/ (zip.complete /\ zip.arch = arch[p]))]
    /\ hnd' = [hnd EXCEPT ![p] = "none"]
    /\ Goto(p, "extract")
    /\ UNCHANGED <<xdir, assets, dest, arch, sel, atStart, lastOK, prev, overlap, runs, dlvars>>

\* iter_content raises in the middle of the body: the file keeps the chunks
\* written so far.
WriteFail(p) ==
    /\ pc[p] = "write"
    /\ hnd' = [hnd EXCEPT ![p] = "none"]
    /\ Raise(p, "write")
    /\ UNCHANGED <<fsvars, arch, sel, atStart, lastOK, prev, overlap, runs, dlvars>>


\* zipfile.ZipFile(model_zip) + extractall("vosk_model"): every member of the
\* archive at the path is written into vosk_model/, over what is there.
ExtractAll(p) ==
    /\ pc[p] = "extract"
    /\ zip.ex /\ zip.complete
    /\ xdir' = Extracted(xdir, zip.arch, Len(Members(zip.arch)))
    /\ Goto(p, "mkdir")
    /\ UNCHANGED <<zip, assets, dest, arch, hnd, sel, atStart, lastOK, prev, overlap, runs, dlvars>>

\* extractall raises at a member (bad CRC, disk full): the members before it
\* are on disk.
ExtractFail(p) ==
    /\ pc[p] = "extract"
    /\ zip.ex /\ zip.complete
    /\ \E k \in 0 .. Len(Members(zip.arch)) - 1 :
           xdir' = Extracted(xdir, zip.arch, k)
    /\ Raise(p, "extract")
    /\ UNCHANGED <<zip, assets, dest, arch, hnd, sel, atStart, lastOK, prev, overlap, runs, dlvars>>

\* ZipFile raises: no file at the path (FileNotFoundError) or a file without
\* its end-of-central-directory record (BadZipFile).
ExtractNoZip(p) ==
    /\ pc[p] = "extract"
    /\ ~(zip.ex /\ zip.complete)
    /\ Raise(p, "extract")
    /\ UNCHANGED <<fsvars, arch, hnd, sel, atStart, lastOK, prev, overlap, runs, dlvars>>

\* android_assets.mkdir(parents=True, exist_ok=True)
MkdirAssets(p) ==
    /\ pc[p] = "mkdir"
    /\ assets' = TRUE
    /\ Goto(p, "select")
    /\ UNCHANGED <<zip, xdir, dest, arch, hnd, sel, atStart, lastOK, prev, overlap, runs, dlvars>>

\* mkdir raises (permissions, a file in the way).
MkdirFail(p) ==
    /\ pc[p] = "mkdir"
    /\ ~assets
    /\ Raise(p, "mkdir")
    /\ UNCHANGED <<fsvars, arch, hnd, sel, atStart, lastOK, prev, overlap, runs, dlvars>>

\* model_dir = list(glob)[0]: the first match in enumeration order, which is
\* any of the matches.
Select(p) ==
    /\ pc[p] = "select"
    /\ \E d \in Matches(xdir) : sel' = [sel EXCEPT ![p] = d]
    /\ Goto(p, "exists")
    /\ UNCHANGED <<fsvars, arch, hnd, atStart, lastOK, prev, overlap, runs, dlvars>>

\* Mutant of SelectNone: the old copy is deleted before the glob.
SelectNoneAfterRmtree(p) ==
    /\ pc[p] = "select"
    /\ Matches(xdir) = {}
    /\ dest' = NoDir
    /\ Raise(p, "select")
    /\ UNCHANGED <<zip, xdir, assets, arch, hnd, sel, atStart, lastOK, prev, overlap, runs, dlvars>>

\* [0] of an empty list raises IndexError.
SelectNone(p) ==
    /\ pc[p] = "select"
    /\ Matches(xdir) = {}
    /\ Raise(p, "select")
    /\ UNCHANGED <<fsvars, arch, hnd, sel, atStart, lastOK, prev, overlap, runs, dlvars>>

\* Mutant of DestExists: the test and the delete are left out.
DestExistsSkipped(p) ==
    /\ pc[p] = "exists"
    /\ Goto(p, "copy")
    /\ UNCHANGED <<fsvars, arch, hnd, sel, atStart, lastOK, prev, overlap, runs, dlvars>>

\* if dest_model.exists():
DestExists(p) ==
    /\ pc[p] = "exists"
    /\ Goto(p, IF dest.ex THEN "rmtree" ELSE "copy")
    /\ UNCHANGED <<fsvars, arch, hnd, sel, atStart, lastOK, prev, overlap, runs, dlvars>>

\* Mutant of RmtreeDest: the files are deleted and the directory is left.
RmtreeDestKeepsDir(p) ==
    /\ pc[p] = "rmtree"
    /\ dest.ex
    /\ dest' = [ex |-> TRUE, files |-> NoFiles]
    /\ Goto(p, "copy")
    /\ UNCHANGED <<zip, xdir, assets, arch, hnd, sel, atStart, lastOK, prev, overlap, runs, dlvars>>

\* shutil.rmtree(dest_model)
RmtreeDest(p) ==
    /\ pc[p] = "rmtree"
    /\ dest.ex
    /\ dest' = NoDir
    /\ Goto(p, "copy")
    /\ UNCHANGED <<zip, xdir, assets, arch, hnd, sel, atStart, lastOK, prev, overlap, runs, dlvars>>

\* rmtree raises at a file it cannot delete.
RmtreeDestFail(p) ==
    /\ pc[p] = "rmtree"
    /\ dest.ex
    /\ \E g \in Remnants(dest.files) : dest' = [ex |-> TRUE, files |-> g]
    /\ Raise(p, "rmtree")
    /\ UNCHANGED <<zip, xdir, assets, arch, hnd, sel, atStart, lastOK, prev, overlap, runs, dlvars>>

\* rmtree raises FileNotFoundError: the directory went away after the test.
RmtreeDestGone(p) ==
    /\ pc[p] = "rmtree"
    /\ ~dest.ex
    /\ Raise(p, "rmtree")
    /\ UNCHANGED <<fsvars, arch, hnd, sel, atStart, lastOK, prev, overlap, runs, dlvars>>

\* shutil.copytree(model_dir, dest_model): lists the source, creates the
\* destination (which must not exist) and copies every file.
CopyTree(p) ==
    /\ pc[p] = "copy"
    /\ sel[p] \in TopLevel(xdir)
    /\ ~dest.ex
    /\ dest' = [ex |-> TRUE, files |-> SubTree(xdir, sel[p])]
    /\ Goto(p, "unlink")
    /\ UNCHANGED <<zip, xdir, assets, arch, hnd, sel, atStart, lastOK, prev, overlap, runs, dlvars>>

\* Mutant of CopyTreeFail: the cleanup runs on the way out (a finally).
CopyTreeFailCleanup(p) ==
    /\ pc[p] = "copy"
    /\ sel[p] \in TopLevel(xdir)
    /\ ~dest.ex
    /\ \E g \in PartialCopies(SubTree(xdir, sel[p])) :
           dest' = [ex |-> TRUE, files |-> g]
    /\ zip' = NoZip
    /\ xdir' = NoTree
    /\ Raise(p, "copy")
    /\ UNCHANGED <<assets, arch, hnd, sel, atStart, lastOK, prev, overlap, runs, dlvars>>

\* copytree raises shutil.Error after files it could not copy.
CopyTreeFail(p) ==
    /\ pc[p] = "copy"
    /\ sel[p] \in TopLevel(xdir)
    /\ ~dest.ex
    /\ \E g \in PartialCopies(SubTree(xdir, sel[p])) :
           dest' = [ex |-> TRUE, files |-> g]
    /\ Raise(p, "copy")
    /\ UNCHANGED <<zip, xdir, assets, arch, hnd, sel, atStart, lastOK, prev, overlap, runs, dlvars>>

\* copytree raises before it writes: the source is gone (FileNotFoundError)
\* or the destination is there (FileExistsError).
CopyTreeRaise(p) ==
    /\ pc[p] = "copy"
    /\ sel[p] \notin TopLevel(xdir) \/ dest.ex
    /\ Raise(p, "copy")
    /\ UNCHANGED <<fsvars, arch, hnd, sel, atStart, lastOK, prev, overlap, runs, dlvars>>

\* model_zip.unlink(): the path goes; a writer keeps its handle on the file,
\* which no path names any more.
Unlink(p) ==
    /\ pc[p] = "unlink"
    /\ zip.ex
    /\ zip' = NoZip
    /\ hnd' = [q \in Procs |-> IF hnd[q] = "none" THEN "none" ELSE "unlinked"]
    /\ Goto(p, "rmx")
    /\ UNCHANGED <<xdir, assets, dest, arch, sel, atStart, lastOK, prev, overlap, runs, dlvars>>

\* unlink raises PermissionError.
UnlinkFail(p) ==
    /\ pc[p] = "unlink"
    /\ zip.ex
    /\ Raise(p, "unlink")
    /\ UNCHANGED <<fsvars, arch, hnd, sel, atStart, lastOK, prev, overlap, runs, dlvars>>

\* unlink raises FileNotFoundError.
UnlinkGone(p) ==
    /\ pc[p] = "unlink"
    /\ ~zip.ex
    /\ Raise(p, "unlink")
    /\ UNCHANGED <<fsvars, arch, hnd, sel, atStart, lastOK, prev, overlap, runs, dlvars>>

\* shutil.rmtree("vosk_model"), then the two closing prints, which read the
\* installed files and change nothing: main() returns.
RmtreeX(p) ==
    /\ pc[p] = "rmx"
    /\ TopLevel(xdir) # {}
    /\ xdir' = NoTree
    /\ lastOK' = [ran |-> TRUE, dest |-> dest]
    /\ Goto(p, "done")
    /\ UNCHANGED <<zip, assets, dest, arch, hnd, sel, atStart, prev, overlap, runs, dlvars>>

\* rmtree raises at a file it cannot delete.
RmtreeXFail(p) ==
    /\ pc[p] = "rmx"
    /\ TopLevel(xdir) # {}
    /\ \E g \in Remnants(xdir) : xdir' = g
    /\ Raise(p, "rmx")
    /\ UNCHANGED <<zip, assets, dest, arch, hnd, sel, atStart, lastOK, prev, overlap, runs, dlvars>>

\* rmtree raises FileNotFoundError.
RmtreeXGone(p) ==
    /\ pc[p] = "rmx"
    /\ TopLevel(xdir) = {}
    /\ Raise(p, "rmx")
    /\ UNCHANGED <<fsvars, arch, hnd, sel, atStart, lastOK, prev, overlap, runs, dlvars>>

(***************************************************************************)
(* Spec: one invocation at a time.  The calls that can only raise when     *)
(* another invocation moved a path under them are not part of it.          *)
(***************************************************************************)
Fetch(p) ==
    \/ GetOk(p) \/ GetStatusError(p) \/ GetNetworkError(p)
    \/ OpenZip(p) \/ OpenZipFail(p)
    \/ WriteAll(p) \/ WriteFail(p)
Extract(p) == ExtractAll(p) \/ ExtractFail(p)
Install(p) ==
    \/ MkdirAssets(p) \/ MkdirFail(p)
    \/ Select(p) \/ SelectNone(p)
    \/ DestExists(p)
    \/ RmtreeDest(p) \/ RmtreeDestFail(p)
    \/ CopyTree(p) \/ CopyTreeFail(p)
Clean(p) == Unlink(p) \/ UnlinkFail(p) \/ RmtreeX(p) \/ RmtreeXFail(p)

Next == Invoke(1) \/ Fetch(1) \/ Extract(1) \/ Install(1) \/ Clean(1)
Spec == Init /\ [][Next]_vars


(***************************************************************************)
(* SpecConc: two invocations from the same directory.  The server answers  *)
(* and the filesystem obeys, so a call raises only for what is at its path *)
(* when it runs.                                                           *)
(***************************************************************************)
Step(p) ==
    \/ GetOk(p) \/ OpenZip(p) \/ WriteAll(p)
    \/ ExtractAll(p) \/ ExtractNoZip(p)
    \/ MkdirAssets(p)
    \/ Select(p) \/ SelectNone(p)
    \/ DestExists(p)
    \/ RmtreeDest(p) \/ RmtreeDestGone(p)
    \/ CopyTree(p) \/ CopyTreeRaise(p)
    \/ Unlink(p) \/ UnlinkGone(p)
    \/ RmtreeX(p) \/ RmtreeXGone(p)
\* The directory the invocations start in: a fresh checkout, or one in which
\* an earlier invocation returned.
InitConc ==
    /\ zip = NoZip
    /\ xdir = NoTree
    /\ \/ assets = FALSE /\ dest = NoDir /\ lastOK = [ran |-> FALSE, dest |-> NoDir]
       \/ \E a \in {b \in ArchiveIds : ModelDirsOf(b) # {}} :
              /\ assets = TRUE
              /\ dest = [ex |-> TRUE, files |-> ModelFilesOf(a)]
              /\ lastOK = [ran |-> TRUE, dest |-> dest]
    /\ pc = [p \in Procs |-> "idle"]
    /\ arch = [p \in Procs |-> 0]
    /\ hnd = [p \in Procs |-> "none"]
    /\ sel = [p \in Procs |-> <<>>]
    /\ failedAt = [p \in Procs |-> "none"]
    /\ atStart = [p \in Procs |-> [dest |-> NoDir, assets |-> FALSE]]
    /\ prev = [ok |-> FALSE, arch |-> 0, dest |-> NoDir]
    /\ overlap = [p \in Procs |-> FALSE]
    /\ runs = 0
    /\ InitDl
InvokeConc(p) == runs < MaxConcRuns /\ Invoke(p)
NextConc == \E p \in Procs : InvokeConc(p) \/ Step(p)
SpecConc == InitConc /\ [][NextConc]_vars

(***************************************************************************)
(* SpecDl: the chunk loop of download_file.  total is the content-length   *)
(* header (0 when the response has none), body the length of the response  *)
(* body, downloaded the bytes written, shown the tenths of a percent in    *)
(* the last progress line printed (-1 before the first).                   *)
(***************************************************************************)
ChunkSize == 8192
Remainders == {0, 1, 2, 4095, 4096, 8191}
Lengths ==
    {k * ChunkSize + r : k \in 0 .. MaxChunks, r \in Remainders} \ {0}

\* f"{percent:.1f}" of percent = (downloaded / total) * 100: the nearest
\* tenth, ties to the even one.
Tenths(d, t) ==
    LET q == (1000 * d) \div t
        r == (1000 * d) % t
    IN  IF 2 * r > t THEN q + 1
        ELSE IF 2 * r < t THEN q
        ELSE IF q % 2 = 0 THEN q ELSE q + 1
\* The next chunk of iter_content(chunk_size=8192).
ChunkLen == IF body - downloaded < ChunkSize THEN body - downloaded ELSE ChunkSize

InitDlLoop ==
    /\ total \in {0} \cup Lengths
    /\ body \in Lengths
    /\ total > 0 => body = total
    /\ downloaded = 0
    /\ shown = -1
    /\ InitFs /\ InitCtl

\* One turn of the loop with a content-length: write, count, print.
ChunkWithTotal ==
    /\ total > 0
    /\ downloaded < body
    /\ downloaded' = downloaded + ChunkLen
    /\ shown' = Tenths(downloaded', total)
    /\ UNCHANGED <<total, body, fsvars, ctl>>

\* One turn of the loop without a content-length: write and count.
ChunkNoTotal ==
    /\ total = 0
    /\ downloaded < body
    /\ downloaded' = downloaded + ChunkLen
    /\ UNCHANGED <<total, body, shown, fsvars, ctl>>

NextDl == ChunkWithTotal \/ ChunkNoTotal
SpecDl == InitDlLoop /\ [][NextDl]_vars

(***************************************************************************)
(* Claims on Spec.                                                         *)
(***************************************************************************)
TempsGone == ~zip.ex /\ TopLevel(xdir) = {}

\* C1: an invocation that returned, on an archive with exactly one
\* vosk-model-* directory, left every file of that directory at the install
\* path and neither vosk-model.zip nor vosk_model/ on disk.
C1_InstallsArchiveModel ==
    (pc[1] = "done" /\ Cardinality(ModelDirsOf(arch[1])) = 1) =>
        /\ dest.ex
        /\ \A n \in Names :
               ModelFilesOf(arch[1])[n] # 0 => dest.files[n] = arch[1]
        /\ TempsGone

\* C2: between invocations, an install path that exists holds what the last
\* invocation that returned installed.
C2_DestReflectsLastSuccess ==
    (~Running(1) /\ dest.ex) => (lastOK.ran /\ dest = lastOK.dest)

\* C3: an invocation ended by a non-success HTTP status created, deleted
\* and changed neither the asset directory nor the install path.
C3_StatusErrorTouchesNothing ==
    \A p \in Procs :
        failedAt[p] = "status" =>
            /\ pc[p] = "aborted"
            /\ dest = atStart[p].dest
            /\ assets = atStart[p].assets
C3_Witness ==
    /\ failedAt[1] = "status"
    /\ atStart[1].dest.ex
    /\ runs > 1

\* C4: an invocation that returned right after one that returned on the
\* same archive leaves the install path as that one left it, and no
\* temporary path.
C4_IdempotentRerun ==
    (pc[1] = "done" /\ prev.ok /\ prev.arch = arch[1]) =>
        (dest = prev.dest /\ TempsGone)

\* C5: copytree starts only with no directory at the install path, and once
\* it returned the install path holds the files of the selected directory
\* and nothing of the copy that was there before.
C5_FullOverwrite ==
    \A p \in Procs :
        /\ pc[p] = "copy" => ~dest.ex
        /\ pc[p] = "unlink" =>
               /\ dest.ex
               /\ dest.files = SubTree(xdir, sel[p])
C5_Witness ==
    /\ pc[1] = "unlink"
    /\ \E n \in Names :
           /\ atStart[1].dest.files[n] # 0
           /\ xdir[<<sel[1], n>>] = 0
           /\ dest.files[n] = 0

\* C7: the calls of one invocation happen in program order; a call that
\* raised ends it there, and what it had put at the temporary paths by then
\* is still on disk.
StepOrder ==
    {<<"get", "open">>, <<"open", "write">>, <<"write", "extract">>,
     <<"extract", "mkdir">>, <<"mkdir", "select">>, <<"select", "exists">>,
     <<"exists", "rmtree">>, <<"exists", "copy">>, <<"rmtree", "copy">>,
     <<"copy", "unlink">>, <<"unlink", "rmx">>, <<"rmx", "done">>}
    \cup {<<l, "aborted">> :
            l \in {"get", "open", "write", "extract", "mkdir", "select",
                   "rmtree", "copy", "unlink", "rmx"}}
    \cup {<<l, "get">> : l \in {"idle", "done", "aborted"}}
AfterFetch == {"extract", "mkdir", "select", "rmtree", "copy"}
AfterExtract == {"mkdir", "select", "rmtree", "copy"}
ArtifactsRemain(p) ==
    /\ failedAt[p] = "write" => zip.ex
    /\ failedAt[p] \in AfterFetch =>
           zip = [ex |-> TRUE, arch |-> arch[p], complete |-> TRUE]
    /\ failedAt[p] \in AfterExtract =>
           \A e \in MemberSet(arch[p]) : xdir[e] = arch[p]
C7_LinearAbort ==
    /\ [][\A p \in Procs :
            /\ pc'[p] # pc[p] => <<pc[p], pc'[p]>> \in StepOrder
            /\ (pc[p] = "aborted" /\ pc'[p] = "aborted") =>
                   UNCHANGED <<fsvars, failedAt>>]_vars
    /\ [](\A p \in Procs :
            /\ failedAt[p] # "none" <=> pc[p] = "aborted"
            /\ ArtifactsRemain(p))
C7_Witness ==
    /\ pc[1] = "aborted"
    /\ failedAt[1] = "copy"
    /\ zip.ex
    /\ TopLevel(xdir) # {}

\* C9: an invocation that returned left at the install path exactly the
\* files of the model directory of the archive it downloaded.
C9_NoLeftover ==
    (pc[1] = "done" /\ Cardinality(ModelDirsOf(arch[1])) = 1) =>
        (dest.ex /\ dest.files = ModelFilesOf(arch[1]))

\* C10: an invocation that finds no vosk-model-* entry in vosk_model/ ends
\* at the selection: the install path is as it was when the invocation
\* started, and vosk-model.zip and the extracted tree are on disk; and an
\* invocation past the selection had a match.
C10_NoMatchAborts ==
    \A p \in Procs :
        /\ (pc[p] = "aborted" /\ failedAt[p] = "select") =>
               /\ dest = atStart[p].dest
               /\ zip = [ex |-> TRUE, arch |-> arch[p], complete |-> TRUE]
               /\ \A e \in MemberSet(arch[p]) : xdir[e] = arch[p]
               /\ \A d \in TopLevel(xdir) : ~GlobMatch(d)
        /\ pc[p] \in {"exists", "rmtree", "copy"} =>
               (GlobMatch(sel[p]) /\ sel[p] \in TopLevel(xdir))
C10_Witness ==
    /\ pc[1] = "aborted"
    /\ failedAt[1] = "select"
    /\ atStart[1].dest.ex
    /\ dest.ex


(***************************************************************************)
(* Claims on SpecConc.                                                     *)
(***************************************************************************)
\* C8: with a server that answers an archive holding a model directory and
\* a filesystem that obeys, an invocation is ended by a raise only if
\* another invocation was running during it; and there are interleavings
\* in which that happens (C8_Witness).
C8_AbortOnlyByOverlap ==
    \A p \in Procs :
        (pc[p] = "aborted" /\ ModelDirsOf(arch[p]) # {}) => overlap[p]
C8_Witness ==
    /\ pc[1] = "aborted"
    /\ failedAt[1] \in {"extract", "select", "copy"}
    /\ ModelDirsOf(arch[1]) # {}
    /\ pc[2] = "done"
    /\ overlap[1]


(***************************************************************************)
(* Claims on SpecDl.                                                       *)
(***************************************************************************)
\* C6: with a content-length, a progress line shows 100.0% exactly when the
\* bytes written equal the content-length.
C6_HundredExactlyAtEnd ==
    (total > 0 /\ shown # -1) => (shown = 1000 <=> downloaded = total)

=============================================================================
